---- MODULE Spec2Model ----
(***************************************************************************)
(* The image-generation request handler POST of fenan-yosef/gemini-api.    *)
(*                                                                         *)
(* Two versions of the handler are modelled:                               *)
(*   "moderating"  src/app/api/generate-image/route.ts, POST (26-174):     *)
(*                 authorize, moderate, Gemini image call, upload;         *)
(*   "rotating"    src/unnamed/part_000, POST (254-424): authorize, one    *)
(*                 Stability attempt per configured key, Gemini fallback,  *)
(*                 upload.                                                 *)
(* A deployment runs one of them (handler).  Every await of the handler is *)
(* one step: the action that fires when the awaited call settles runs the  *)
(* synchronous code up to the next await or return.  The results of the    *)
(* external calls (request body, moderation, Stability, Gemini, Cloudinary,*)
(* Date.now) are inputs drawn from small sets.                             *)
(***************************************************************************)
EXTENDS Integers, Sequences, FiniteSets, TLC

VARIABLES
    handler,    \* which version of POST the deployment runs
    env,        \* process.env, read by the handler
    ctx,        \* per invocation: position and local variables of POST
    calls,      \* per invocation: the external calls made, in order, with results
    response,   \* per invocation: the value POST returned
    history     \* the requests served so far, oldest first

vars == <<handler, env, ctx, calls, response, history>>

\* ------------------------------------------------------------------ bounds
MaxReq == 2      \* requests received in one behaviour
MaxKeys == 2     \* Stability keys configured at most
MaxClock == 1    \* Date.now() returns a value in 0..MaxClock

Reqs == 1..MaxReq

\* ------------------------------------------------------------ JS values
Undefined == "undefined"

\* A JS string is modelled as a TLC string where it is only built and compared,
\* and as a sequence of one-character strings where the code looks inside it.
Whitespace == {" "}

Upper ==
    [ch \in {"a", "e", "f", "n", "s", "u", "x"} |->
        CASE ch = "a" -> "A" [] ch = "e" -> "E" [] ch = "f" -> "F"
          [] ch = "n" -> "N" [] ch = "s" -> "S" [] ch = "u" -> "U"
          [] OTHER -> "X"]

\* String.prototype.toUpperCase
toUpperCase(s) ==
    [n \in 1..Len(s) |-> IF s[n] \in DOMAIN Upper THEN Upper[s[n]] ELSE s[n]]

RECURSIVE trimStart(_)
trimStart(s) ==
    IF s # <<>> /\ Head(s) \in Whitespace THEN trimStart(Tail(s)) ELSE s

RECURSIVE trimEnd(_)
trimEnd(s) ==
    IF s # <<>> /\ s[Len(s)] \in Whitespace
    THEN trimEnd(SubSeq(s, 1, Len(s) - 1))
    ELSE s

\* String.prototype.trim
trim(s) == trimEnd(trimStart(s))

\* String.prototype.startsWith
startsWith(s, p) == Len(s) >= Len(p) /\ SubSeq(s, 1, Len(p)) = p

\* String.prototype.substring(n): the characters from (0-based) index n on
substring(s, n) == SubSeq(s, n + 1, Len(s))

\* The characters of s as one TLC string
RECURSIVE Str(_)
Str(s) == IF s = <<>> THEN "" ELSE Head(s) \o Str(Tail(s))

\* String.prototype.split(','): the pieces between the commas
RECURSIVE split(_)
split(s) ==
    IF \E n \in 1..Len(s) : s[n] = ","
    THEN LET n == CHOOSE m \in 1..Len(s) :
                      s[m] = "," /\ \A l \in 1..(m - 1) : s[l] # ","
         IN <<SubSeq(s, 1, n - 1)>> \o split(SubSeq(s, n + 1, Len(s)))
    ELSE <<s>>

\* Array.prototype.filter(Boolean) on an array of strings: drops the empty ones
RECURSIVE filterBoolean(_)
filterBoolean(a) ==
    IF a = <<>> THEN <<>>
    ELSE (IF Head(a) = <<>> THEN <<>> ELSE <<Head(a)>>) \o filterBoolean(Tail(a))

\* --------------------------------------------------- process.env (inputs)
Unset == [set |-> FALSE, value |-> <<>>]
Value(s) == [set |-> TRUE, value |-> s]

\* The n-th Stability key, as a string of characters
KeyName(n) == <<"k", ToString(n)>>

\* "k1" sep "k2" sep ... "kn"
RECURSIVE JoinKeys(_, _)
JoinKeys(n, sep) ==
    IF n = 0 THEN <<>>
    ELSE IF n = 1 THEN KeyName(1)
    ELSE JoinKeys(n - 1, sep) \o sep \o KeyName(n)

\* The values of STABILITY_KEYS / STABILITY_KEY a deployment is started with
StabilityEnvs ==
    {[STABILITY_KEYS |-> Unset, STABILITY_KEY |-> Unset],
     [STABILITY_KEYS |-> Unset, STABILITY_KEY |-> Value(KeyName(0))],
     [STABILITY_KEYS |-> Value(<<>>), STABILITY_KEY |-> Value(KeyName(0))],
     [STABILITY_KEYS |-> Value(<<" ">> \o JoinKeys(MaxKeys, <<" ", ",", ",", " ">>)),
      STABILITY_KEY |-> Unset]}
    \cup {[STABILITY_KEYS |-> Value(JoinKeys(n, <<",">>)), STABILITY_KEY |-> Unset] :
             n \in 1..MaxKeys}

SharedSecrets == {"s3cret", Undefined}

Envs ==
    {[SHARED_SECRET |-> s, STABILITY_KEYS |-> e.STABILITY_KEYS,
      STABILITY_KEY |-> e.STABILITY_KEY] : s \in SharedSecrets, e \in StabilityEnvs}

\* ------------------------------------------------ request bodies (inputs)
Prompts == {"a red fox", "a blue whale"}
BodySecrets == {"s3cret", "wrong", Undefined}

\* A thrown value, as far as the catch blocks look at it: error.message and
\* error.response?.text, which is absent, a function that returns text, or a
\* function that throws.
Errors ==
    {[message |-> "fetch failed", response |-> "absent"],
     [message |-> Undefined, response |-> "text"],
     [message |-> "Text not available", response |-> "throws"]}

DecodeError == [message |-> "Unexpected end of JSON input", response |-> "absent"]
TypeErr == [message |-> "Cannot read properties of undefined", response |-> "absent"]

\* What `await req.json()` and the destructuring of its value do
BodyOutcomes ==
    {[kind |-> "throws", error |-> DecodeError]}
    \cup {[kind |-> "json", prompt |-> p, sharedSecret |-> s] :
             p \in Prompts, s \in BodySecrets}

\* ------------------------------------------- moderation results (inputs)
SAFE == <<"S", "A", "F", "E">>
UNSAFE == <<"U", "N", "S", "A", "F", "E">>

ModerationTexts ==
    {SAFE,
     UNSAFE,
     <<"U", "N", "S", "A", "F">>,
     <<>>,
     <<"u", "n", "s", "a", "f", "e", " ", "x">>,
     <<" ", "U", "n", "s", "a", "f", "e", ":", " ", "a", "x", "e", " ">>,
     <<"S", "A", "F", "E", " ", "u", "n", "s", "a", "f", "e">>,
     UNSAFE \o <<" ", " ">>}

\* moderationModel.generateContent(...) followed by response.text()
ModerationOutcomes ==
    {[kind |-> "throws", error |-> e] : e \in Errors}
    \cup {[kind |-> "text", text |-> t] : t \in ModerationTexts}

\* ---------------------------------------------- Stability results (inputs)
ImageData == {"iVBORw0KGgo=", "/9j/4AAQSkZJ"}

\* fetch + res.ok + res.json() of generateWithStability
StabilityOutcomes ==
    {[kind |-> "notOk", image |-> Undefined],
     [kind |-> "malformed", image |-> Undefined],
     [kind |-> "json", image |-> Undefined]}
    \cup {[kind |-> "json", image |-> d] : d \in ImageData}

\* ------------------------------------------------- Gemini results (inputs)
IMAGE_ == <<"i", "m", "a", "g", "e", "/">>
PNG == IMAGE_ \o <<"p", "n", "g">>
JPEG == IMAGE_ \o <<"j", "p", "e", "g">>
WAV == <<"a", "u", "d", "i", "o", "/", "w", "a", "v">>

NoInline == [present |-> FALSE, mimeType |-> <<>>, data |-> ""]
TextPart(t) == [text |-> t, inlineData |-> NoInline]
InlinePart(m, d) ==
    [text |-> "", inlineData |-> [present |-> TRUE, mimeType |-> m, data |-> d]]

\* content.parts of the first candidate
PartsChoices ==
    {<<>>,
     <<TextPart("Here is your image.")>>,
     <<InlinePart(PNG, "iVBORw0KGgo=")>>,
     <<TextPart("A fox, drawn."), InlinePart(JPEG, "/9j/4AAQSkZJ")>>,
     <<InlinePart(WAV, "UklGRg=="), InlinePart(PNG, "/9j/4AAQSkZJ"),
       InlinePart(JPEG, "iVBORw0KGgo="), TextPart("first"), TextPart("second")>>,
     <<InlinePart(WAV, "UklGRg==")>>,
     <<InlinePart(PNG, "")>>}

\* imageGenModel.generateContent(...): it throws, or its response has no
\* candidates field, an empty list, a first candidate without content, or a
\* first candidate with parts
GeminiOutcomes ==
    {[kind |-> "throws", error |-> e, hasCandidates |-> FALSE, candidates |-> <<>>] :
        e \in Errors}
    \cup {[kind |-> "response", error |-> TypeErr, hasCandidates |-> FALSE,
           candidates |-> <<>>],
          [kind |-> "response", error |-> TypeErr, hasCandidates |-> TRUE,
           candidates |-> <<>>],
          [kind |-> "response", error |-> TypeErr, hasCandidates |-> TRUE,
           candidates |-> <<[hasContent |-> FALSE, parts |-> <<>>]>>]}
    \cup {[kind |-> "response", error |-> TypeErr, hasCandidates |-> TRUE,
           candidates |-> <<[hasContent |-> TRUE, parts |-> ps]>>] :
             ps \in PartsChoices}

\* ---------------------------------------------- Cloudinary results (inputs)
\* cloudinary.uploader.upload(...): it throws, or resolves to a result with or
\* without secure_url
UploadOutcomes ==
    {[kind |-> "throws", error |-> e, hasUrl |-> FALSE] : e \in Errors}
    \cup {[kind |-> "result", error |-> TypeErr, hasUrl |-> u] : u \in BOOLEAN}

\* The URL Cloudinary serves an upload under
SecureUrl(folder, public_id) ==
    "https://res.cloudinary.com/demo/image/upload/" \o folder \o "/" \o public_id

\* Date.now()
Clock == 0..MaxClock

\* ------------------------------------------------------ NextResponse.json
\* JSON.stringify of a flat object: the properties whose value is undefined
\* are left out
JsonObject(o) == [k \in {f \in DOMAIN o : o[f] # Undefined} |-> o[k]]

ObjectKeys == {"generatedImage"}

\* JSON.stringify of a response body
Json(o) ==
    [k \in {f \in DOMAIN o : f \in ObjectKeys \/ o[f] # Undefined} |->
        IF k \in ObjectKeys THEN JsonObject(o[k]) ELSE o[k]]

\* NextResponse.json(body, { status })
NextResponseJson(body, status) == [status |-> status, body |-> Json(body)]

NoResponse == [status |-> 0, body |-> [none |-> "none"]]

\* ------------------------------------------------- the locals of POST
InitCtx ==
    [pc |-> "idle",
     decoded |-> FALSE,
     prompt |-> Undefined,
     requestPrompt |-> "",
     sharedSecret |-> Undefined,
     STABILITY_KEYS |-> <<>>,
     i |-> 0,
     imageBase64 |-> Undefined,
     mimeType |-> <<>>,
     caption |-> Undefined,
     public_id |-> Undefined]

\* !x of a string or undefined
Falsy(x) == x = Undefined \/ x = ""

\* The ways a step of POST ends: a return, an exception leaving POST, or the
\* next await
Return(c, resp) == [ctx |-> [c EXCEPT !.pc = "done"], response |-> resp]
Escape(c) == [ctx |-> [c EXCEPT !.pc = "escaped"], response |-> NoResponse]
Goto(c, pc) == [ctx |-> [c EXCEPT !.pc = pc], response |-> NoResponse]

\* catch (error) of POST
Catch(c, error) ==
    IF error.response = "throws"
    THEN Escape(c)
    ELSE Return(c, NextResponseJson(
             [status |-> "error",
              message |-> IF Falsy(error.message) THEN "Internal server error"
                          ELSE error.message,
              prompt |-> c.requestPrompt,
              details |-> IF error.response = "text" THEN "<error.response.text()>"
                          ELSE "{}"],
             500))

\* ---------------------------------------------------------- authorization
\* Mutant: a request that carries no sharedSecret is let through
Authorized_Loose(sharedSecret) ==
    sharedSecret = env.SHARED_SECRET \/ sharedSecret = Undefined

\* sharedSecret !== process.env.SHARED_SECRET, negated
Authorized(sharedSecret) == sharedSecret = env.SHARED_SECRET

\* Mutant: the unauthorized response is sent as 403
UnauthorizedResponse_Forbidden ==
    NextResponseJson([error |-> "Unauthorized request"], 403)

UnauthorizedResponse ==
    NextResponseJson([error |-> "Unauthorized request"], 401)

\* ------------------------------------------------------------- moderation
\* Mutant: the comparison is case-sensitive
IsUnsafe_CaseSensitive(moderationResponseText) ==
    startsWith(moderationResponseText, UNSAFE)

\* Mutant: everything that does not start with SAFE is rejected
IsUnsafe_NotSafe(moderationResponseText) ==
    ~startsWith(toUpperCase(moderationResponseText), SAFE)

\* moderationResponseText.toUpperCase().startsWith('UNSAFE')
IsUnsafe(moderationResponseText) ==
    startsWith(toUpperCase(moderationResponseText), UNSAFE)

\* moderationResponseText.substring(5).trim() || "Content deemed unsafe."
Reason(moderationResponseText) ==
    LET rest == Str(trim(substring(moderationResponseText, 5)))
    IN IF Falsy(rest) THEN "Content deemed unsafe." ELSE rest

ModeratedResponse(c, reason) ==
    NextResponseJson(
        [status |-> "moderated", message |-> reason, prompt |-> c.prompt,
         moderationFeedback |-> "<promptFeedback>"],
        200)

\* The step of the moderating POST after the moderation call settled
ModerationStep(c, o) ==
    IF o.kind = "throws" THEN Catch(c, o.error)
    ELSE LET moderationResponseText == trim(o.text)
         IN IF IsUnsafe(moderationResponseText)
            THEN Return(c, ModeratedResponse(c, Reason(moderationResponseText)))
            ELSE Goto(c, "gemini")

\* ------------------------------------------------------- Stability attempts
\* STABILITY_KEYS_RAW = process.env.STABILITY_KEYS ?? process.env.STABILITY_KEY
STABILITY_KEYS_RAW ==
    IF env.STABILITY_KEYS.set THEN env.STABILITY_KEYS ELSE env.STABILITY_KEY

\* STABILITY_KEYS_RAW ? STABILITY_KEYS_RAW.split(',').map(k => k.trim()).filter(Boolean) : []
ParseKeys(raw) ==
    IF ~raw.set \/ raw.value = <<>> THEN <<>>
    ELSE LET pieces == split(raw.value)
         IN filterBoolean([n \in 1..Len(pieces) |-> trim(pieces[n])])

\* generateWithStability: it throws on a non-success status and on a payload
\* that does not parse, and otherwise returns { base64 }, undefined when the
\* payload has no image field
generateWithStability(o) ==
    IF o.kind \in {"notOk", "malformed"}
    THEN [threw |-> TRUE, base64 |-> Undefined]
    ELSE [threw |-> FALSE, base64 |-> o.image]

\* What follows the loop over the keys: the Gemini call if (!imageBase64),
\* and otherwise the upload
AfterLoop(c) ==
    IF Falsy(c.imageBase64) THEN Goto(c, "gemini") ELSE Goto(c, "upload")

\* Mutant: once a request was served, the first key is skipped
BeginGeneration_SkipFailed(c) ==
    LET c1 == [c EXCEPT !.STABILITY_KEYS = ParseKeys(STABILITY_KEYS_RAW),
                        !.imageBase64 = Undefined,
                        !.mimeType = PNG,
                        !.caption = c.prompt,
                        !.i = IF history # <<>> THEN 1 ELSE 0]
    IN IF c1.i < Len(c1.STABILITY_KEYS) THEN Goto(c1, "stability") ELSE AfterLoop(c1)

\* The step of the rotating POST from the authorization check to its first
\* await
BeginGeneration(c) ==
    LET c1 == [c EXCEPT !.STABILITY_KEYS = ParseKeys(STABILITY_KEYS_RAW),
                        !.imageBase64 = Undefined,
                        !.mimeType = PNG,
                        !.caption = c.prompt,
                        !.i = 0]
    IN IF Len(c1.STABILITY_KEYS) > 0 THEN Goto(c1, "stability") ELSE AfterLoop(c1)

\* Mutant: the break after a successful attempt is missing
StabilityStep_NoBreak(c, o) ==
    LET stabilityResult == generateWithStability(o)
        c1 == [c EXCEPT !.imageBase64 = stabilityResult.base64, !.i = c.i + 1]
    IN IF c1.i < Len(c1.STABILITY_KEYS) THEN Goto(c1, "stability") ELSE AfterLoop(c1)

\* The body of the loop over the keys, once generateWithStability(prompt,
\* STABILITY_KEYS[i]) has settled
StabilityStep(c, o) ==
    LET stabilityResult == generateWithStability(o)
    IN IF ~stabilityResult.threw
       THEN AfterLoop([c EXCEPT !.imageBase64 = stabilityResult.base64,
                                !.caption = c.prompt])
       ELSE LET c1 == [c EXCEPT !.imageBase64 = Undefined, !.i = c.i + 1]
            IN IF c1.i < Len(c1.STABILITY_KEYS)
               THEN Goto(c1, "stability")
               ELSE AfterLoop(c1)

\* ------------------------------------------------------------------ Gemini
\* p => p.inlineData && p.inlineData.mimeType.startsWith('image/')
IsImagePart(p) == p.inlineData.present /\ startsWith(p.inlineData.mimeType, IMAGE_)

\* p => p.text
HasText(p) == ~Falsy(p.text)

\* parts.find(p => p.inlineData && ...): the first image part
FindImagePart(parts) ==
    IF \E n \in 1..Len(parts) : IsImagePart(parts[n])
    THEN [found |-> TRUE,
          part |-> parts[CHOOSE n \in 1..Len(parts) :
                       IsImagePart(parts[n])
                       /\ \A m \in 1..(n - 1) : ~IsImagePart(parts[m])]]
    ELSE [found |-> FALSE, part |-> TextPart("")]

\* Mutant: the text part is never looked up
FindTextPart_None(parts) == [found |-> FALSE, part |-> TextPart("")]

\* parts.find(p => p.text): the first text part
FindTextPart(parts) ==
    IF \E n \in 1..Len(parts) : HasText(parts[n])
    THEN [found |-> TRUE,
          part |-> parts[CHOOSE n \in 1..Len(parts) :
                       HasText(parts[n]) /\ \A m \in 1..(n - 1) : ~HasText(parts[m])]]
    ELSE [found |-> FALSE, part |-> TextPart("")]

\* Mutant: the prompt is not echoed
ErrorResponse_NoPrompt(c, message) ==
    NextResponseJson(
        [status |-> "error", message |-> message, geminiResponse |-> "<response>"],
        500)

\* Mutant: the { status: 500 } argument is left out
ErrorResponse_Ok(c, message) ==
    NextResponseJson(
        [status |-> "error", message |-> message, prompt |-> c.prompt,
         geminiResponse |-> "<response>"],
        200)

ErrorResponse(c, message) ==
    NextResponseJson(
        [status |-> "error", message |-> message, prompt |-> c.prompt,
         geminiResponse |-> "<response>"],
        500)

\* The step of POST after imageGenModel.generateContent settled
GeminiStep(c, o) ==
    IF o.kind = "throws" THEN Catch(c, o.error)
    ELSE IF ~o.hasCandidates \/ Len(o.candidates) = 0
    THEN Return(c, ErrorResponse(c, "No image candidates found"))
    ELSE IF ~o.candidates[1].hasContent THEN Catch(c, o.error)
    ELSE LET parts == o.candidates[1].parts
             imagePart == FindImagePart(parts)
             textPart == FindTextPart(parts)
         IN IF ~imagePart.found
            THEN Return(c, ErrorResponse(c, "No image part found in Gemini response"))
            ELSE LET c1 == [c EXCEPT
                              !.imageBase64 = imagePart.part.inlineData.data,
                              !.mimeType = imagePart.part.inlineData.mimeType,
                              !.caption = IF textPart.found THEN textPart.part.text
                                          ELSE IF handler = "moderating"
                                          THEN c.prompt
                                          ELSE c.caption]
                 IN IF handler = "rotating" /\ Falsy(c1.imageBase64)
                    THEN Return(c1, NextResponseJson(
                             [status |-> "error",
                              message |-> "Failed to generate image from any provider",
                              prompt |-> c1.prompt],
                             500))
                    ELSE Goto(c1, "upload")

\* ------------------------------------------------------------------ upload
\* Mutant: the base64 string is sent without the data-URI prefix
base64ImageWithPrefix_Bare(mimeType, imageData) == imageData

\* `data:${mimeType};base64,${imageData}`
base64ImageWithPrefix(mimeType, imageData) ==
    "data:" \o Str(mimeType) \o ";base64," \o imageData

\* `gemini-gen-${Date.now()}` and `generated-${Date.now()}`
PublicId(now) ==
    IF handler = "moderating" THEN "gemini-gen-" \o ToString(now)
    ELSE "generated-" \o ToString(now)

Folder == "gemini-telegram-images"

\* The arguments of cloudinary.uploader.upload
UploadCall(c, now) ==
    [file |-> base64ImageWithPrefix(c.mimeType, c.imageBase64),
     folder |-> Folder,
     public_id |-> PublicId(now)]

SuccessResponse(c, imageUrl) ==
    NextResponseJson(
        [status |-> "success",
         imageUrl |-> imageUrl,
         message |-> c.caption,
         prompt |-> c.prompt,
         generatedImage |->
             [mimeType |-> Str(c.mimeType), caption |-> c.caption,
              imageUrl |-> imageUrl],
         geminiResponse |-> IF handler = "moderating" THEN "<response>" ELSE Undefined],
        200)

\* Mutant: a failed upload is tried again
UploadStep_Retry(c, call, o) ==
    LET c1 == [c EXCEPT !.public_id = call.public_id]
    IN IF o.kind = "throws" THEN Goto(c1, "upload")
       ELSE Return(c1, SuccessResponse(c, SecureUrl(call.folder, call.public_id)))

\* Mutant: the result of the upload is not checked for a URL
UploadStep_Unchecked(c, call, o) ==
    LET c1 == [c EXCEPT !.public_id = call.public_id]
    IN IF o.kind = "throws"
       THEN Return(c1, NextResponseJson(
                [status |-> "error",
                 message |-> "Failed to upload image to cloud storage",
                 prompt |-> c.prompt,
                 cloudinaryError |-> o.error.message],
                500))
       ELSE Return(c1, SuccessResponse(c, IF o.hasUrl
                                          THEN SecureUrl(call.folder, call.public_id)
                                          ELSE Undefined))

\* The step of POST after cloudinary.uploader.upload settled
UploadStep(c, call, o) ==
    LET c1 == [c EXCEPT !.public_id = call.public_id]
    IN IF o.kind = "throws"
       THEN Return(c1, NextResponseJson(
                [status |-> "error",
                 message |-> "Failed to upload image to cloud storage",
                 prompt |-> c.prompt,
                 cloudinaryError |-> o.error.message],
                500))
       ELSE LET imageUrl == IF o.hasUrl THEN SecureUrl(call.folder, call.public_id)
                            ELSE Undefined
            IN IF handler = "moderating" /\ Falsy(imageUrl)
               THEN Return(c1, NextResponseJson(
                        [status |-> "error", message |-> "Image URL not available",
                         prompt |-> c.prompt],
                        500))
               ELSE Return(c1, SuccessResponse(c, imageUrl))

\* Mutant: a body that cannot be decoded is answered as unauthorized
DecodeStep_Unauthorized(c, o) ==
    IF o.kind = "throws" THEN Return(c, UnauthorizedResponse)
    ELSE LET c1 == [c EXCEPT !.decoded = TRUE,
                             !.prompt = o.prompt,
                             !.requestPrompt = o.prompt,
                             !.sharedSecret = o.sharedSecret]
         IN IF ~Authorized(c1.sharedSecret) THEN Return(c1, UnauthorizedResponse)
            ELSE IF handler = "moderating" THEN Goto(c1, "moderation")
            ELSE BeginGeneration(c1)

\* ------------------------------------------------------ request decoding
\* The step of POST after req.json() settled: the destructuring, the
\* authorization check, and the code up to the first external call
DecodeStep(c, o) ==
    IF o.kind = "throws" THEN Catch(c, o.error)
    ELSE LET c1 == [c EXCEPT !.decoded = TRUE,
                             !.prompt = o.prompt,
                             !.requestPrompt = o.prompt,
                             !.sharedSecret = o.sharedSecret]
         IN IF ~Authorized(c1.sharedSecret) THEN Return(c1, UnauthorizedResponse)
            ELSE IF handler = "moderating" THEN Goto(c1, "moderation")
            ELSE BeginGeneration(c1)

\* ================================================================ actions
Init ==
    /\ handler \in {"moderating", "rotating"}
    /\ env \in Envs
    /\ handler = "moderating" =>
           (~env.STABILITY_KEYS.set /\ ~env.STABILITY_KEY.set)
    /\ ctx = [r \in Reqs |-> InitCtx]
    /\ calls = [r \in Reqs |-> <<>>]
    /\ response = [r \in Reqs |-> NoResponse]
    /\ history = <<>>

\* No invocation of POST is in progress or awaits its release
Idle == \A q \in Reqs : ctx[q].pc = "idle"

\* Mutant: requestPrompt is a variable of the module, which every invocation
\* in progress reads and writes
Apply_Shared(r, step) ==
    /\ ctx' = [q \in Reqs |->
                 IF q = r THEN step.ctx
                 ELSE IF ctx[q].pc = "idle" THEN ctx[q]
                 ELSE [ctx[q] EXCEPT !.requestPrompt = step.ctx.requestPrompt]]
    /\ response' = [response EXCEPT ![r] = step.response]

\* The outcome of a step, written to invocation r
Apply(r, step) ==
    /\ ctx' = [ctx EXCEPT ![r] = step.ctx]
    /\ response' = [response EXCEPT ![r] = step.response]

Log(r, entry) == calls' = [calls EXCEPT ![r] = Append(@, entry)]

\* The runtime invokes POST(req) for the r-th request
Receive(r) ==
    /\ ctx[r].pc = "idle"
    /\ r = Len(history) + Cardinality({q \in Reqs : ctx[q].pc # "idle"}) + 1
    /\ ctx' = [ctx EXCEPT ![r] = [InitCtx EXCEPT !.pc = "decode"]]
    /\ UNCHANGED <<handler, env, calls, response, history>>

\* await req.json() settles
Decode(r) ==
    /\ ctx[r].pc = "decode"
    /\ \E o \in BodyOutcomes : Apply(r, DecodeStep(ctx[r], o))
    /\ UNCHANGED <<handler, env, calls, history>>

\* await moderationModel.generateContent(...) settles
ModerationReturns(r) ==
    /\ ctx[r].pc = "moderation"
    /\ \E o \in ModerationOutcomes :
          /\ Apply(r, ModerationStep(ctx[r], o))
          /\ Log(r, [api |-> "moderation", prompt |-> ctx[r].prompt, out |-> o])
    /\ UNCHANGED <<handler, env, history>>

\* await generateWithStability(prompt, key) settles
StabilityReturns(r) ==
    /\ ctx[r].pc = "stability"
    /\ \E o \in StabilityOutcomes :
          /\ Apply(r, StabilityStep(ctx[r], o))
          /\ Log(r, [api |-> "stability", prompt |-> ctx[r].prompt,
                     key |-> Str(ctx[r].STABILITY_KEYS[ctx[r].i + 1]), out |-> o])
    /\ UNCHANGED <<handler, env, history>>

\* await imageGenModel.generateContent(...) settles
GeminiReturns(r) ==
    /\ ctx[r].pc = "gemini"
    /\ \E o \in GeminiOutcomes :
          /\ Apply(r, GeminiStep(ctx[r], o))
          /\ Log(r, [api |-> "gemini", prompt |-> ctx[r].prompt, out |-> o])
    /\ UNCHANGED <<handler, env, history>>

\* await cloudinary.uploader.upload(...) settles
UploadReturns(r) ==
    /\ ctx[r].pc = "upload"
    /\ \E now \in Clock, o \in UploadOutcomes :
          LET call == UploadCall(ctx[r], now)
          IN /\ Apply(r, UploadStep(ctx[r], call, o))
             /\ Log(r, [api |-> "upload", file |-> call.file, folder |-> call.folder,
                        public_id |-> call.public_id, out |-> o])
    /\ UNCHANGED <<handler, env, history>>

\* What is remembered of a request that was served
Served(r) ==
    [outcome |-> IF ctx[r].pc = "escaped" THEN "escaped"
                 ELSE IF "status" \in DOMAIN response[r].body
                 THEN response[r].body.status
                 ELSE "unauthorized",
     public_id |-> ctx[r].public_id]

\* The invocation is over: its locals are discarded
Release(r) ==
    /\ ctx[r].pc \in {"done", "escaped"}
    /\ history' = Append(history, Served(r))
    /\ ctx' = [ctx EXCEPT ![r] = InitCtx]
    /\ calls' = [calls EXCEPT ![r] = <<>>]
    /\ response' = [response EXCEPT ![r] = NoResponse]
    /\ UNCHANGED <<handler, env>>

\* Requests are served one after the other
Next ==
    \E r \in Reqs :
        \/ Idle /\ Receive(r)
        \/ Decode(r)
        \/ ModerationReturns(r)
        \/ StabilityReturns(r)
        \/ GeminiReturns(r)
        \/ UploadReturns(r)
        \/ Release(r)

Spec == Init /\ [][Next]_vars

\* --------------------------------------------------- concurrent invocations
\* The runtime invokes POST for a request while earlier invocations are
\* suspended at an await: the steps of the invocations interleave at every
\* external call. The deployment has the shared secret and every Stability key
\* configured, the results of the calls are drawn from a sample of each
\* call's results, one for each way POST goes on after the call, and the
\* uploads happen within one tick of the clock.
InitConcurrent ==
    /\ Init
    /\ env.SHARED_SECRET # Undefined
    /\ handler = "rotating" =>
           env.STABILITY_KEYS = Value(JoinKeys(MaxKeys, <<",">>))

ModerationSample ==
    {o \in ModerationOutcomes :
        IF o.kind = "throws" THEN o.error.response = "throws"
        ELSE o.text \in {SAFE, UNSAFE}}

StabilitySample ==
    {o \in StabilityOutcomes : o.kind = "notOk" \/ o.image = "iVBORw0KGgo="}

GeminiSample ==
    {o \in GeminiOutcomes :
        IF o.kind = "throws" THEN o.error.response = "absent"
        ELSE \/ ~o.hasCandidates
             \/ /\ o.candidates # <<>>
                /\ o.candidates[1].hasContent
                /\ Len(o.candidates[1].parts) = 2}

UploadSample ==
    {o \in UploadOutcomes : o.kind = "throws" => o.error.response = "absent"}

Sampled(e) ==
    CASE e.api = "moderation" -> e.out \in ModerationSample
      [] e.api = "stability" -> e.out \in StabilitySample
      [] e.api = "gemini" -> e.out \in GeminiSample
      [] e.api = "upload" -> e.out \in UploadSample /\ e.public_id = PublicId(0)

\* The call that invocation r logs in this step has a result of the sample
Drawn(r) == Sampled(calls'[r][Len(calls'[r])])

\* The body that invocation r decodes in this step carries a shared secret
BodyDrawn(r) == ctx'[r].decoded => ctx'[r].sharedSecret # Undefined

NextConcurrent ==
    \E r \in Reqs :
        \/ Receive(r)
        \/ Decode(r) /\ BodyDrawn(r)
        \/ ModerationReturns(r) /\ Drawn(r)
        \/ StabilityReturns(r) /\ Drawn(r)
        \/ GeminiReturns(r) /\ Drawn(r)
        \/ UploadReturns(r) /\ Drawn(r)
        \/ Release(r)

SpecConcurrent == InitConcurrent /\ [][NextConcurrent]_vars

\* ============================================================= properties
Done(r) == ctx[r].pc = "done"

\* The positions of the calls of invocation r to an API
CallsTo(r, apis) == {n \in 1..Len(calls[r]) : calls[r][n].api \in apis}

\* A call of invocation r to an API was made: it settled, or it is awaited
Called(r, api) == CallsTo(r, {api}) # {} \/ ctx[r].pc = api

Last(r) == calls[r][Len(calls[r])]

\* The request body was decoded and its sharedSecret is not the configured one
Mismatch(r) == ctx[r].decoded /\ ctx[r].sharedSecret # env.SHARED_SECRET

\* C1: a request whose sharedSecret differs from the configured secret is
\* answered with HTTP 401 and the body {error: 'Unauthorized request'} exactly,
\* and no moderation, Stability, Gemini or upload call is made for it.
C1_Unauthorized ==
    \A r \in Reqs :
        Mismatch(r) =>
            /\ Done(r)
            /\ response[r] = [status |-> 401, body |-> [error |-> "Unauthorized request"]]
            /\ calls[r] = <<>>

C1_Witness ==
    \E r \in Reqs : Mismatch(r) /\ Done(r) /\ ctx[r].sharedSecret = "wrong"

\* The text starts with the letters of UNSAFE, each in either case
StartsWithUnsafeAnyCase(text) ==
    /\ Len(text) >= Len(UNSAFE)
    /\ \A n \in 1..Len(UNSAFE) :
          text[n] = UNSAFE[n] \/ (text[n] \in DOMAIN Upper /\ Upper[text[n]] = UNSAFE[n])

\* The moderation call of invocation r returned text that starts with UNSAFE
ModeratedUnsafe(r) ==
    /\ calls[r] # <<>>
    /\ calls[r][1].api = "moderation"
    /\ calls[r][1].out.kind = "text"
    /\ StartsWithUnsafeAnyCase(calls[r][1].out.text)

\* C2: in the moderating handler, when the moderation call returns text that
\* starts with UNSAFE in any letter case, the response is HTTP 200 with status
\* 'moderated' and a non-empty message, and neither the Gemini image call nor
\* the upload call is made.
C2_Moderated ==
    \A r \in Reqs :
        (handler = "moderating" /\ ModeratedUnsafe(r)) =>
            /\ Done(r)
            /\ response[r].status = 200
            /\ response[r].body.status = "moderated"
            /\ "message" \in DOMAIN response[r].body
            /\ ~Falsy(response[r].body.message)
            /\ ~Called(r, "gemini")
            /\ ~Called(r, "upload")

C2_Witness ==
    \E r \in Reqs :
        /\ handler = "moderating" /\ ModeratedUnsafe(r) /\ Done(r)
        /\ calls[r][1].out.text # UNSAFE
        /\ toUpperCase(calls[r][1].out.text) # calls[r][1].out.text

\* ------------------------------------------------------ provider attempts
\* A Stability attempt failed: a non-success status, a malformed payload, or
\* a payload without an image field
StabilityFailed(o) == o.kind \in {"notOk", "malformed"} \/ o.image = Undefined

StabilitySucceeded(o) == o.kind = "json" /\ o.image # Undefined

\* The configured credentials of the rotating handler, in order
Configured == ParseKeys(STABILITY_KEYS_RAW)

\* Invocation r of the rotating handler passed the authorization check
Rotating(r) ==
    handler = "rotating" /\ ctx[r].decoded /\ ctx[r].sharedSecret = env.SHARED_SECRET

\* The first n calls of invocation r are the attempts with credentials 1..n,
\* in the configured order
AttemptsInOrder(r, n) ==
    /\ n <= Len(calls[r])
    /\ n <= Len(Configured)
    /\ \A m \in 1..n :
          /\ calls[r][m].api = "stability"
          /\ calls[r][m].key = Str(Configured[m])
          /\ calls[r][m].prompt = ctx[r].prompt

\* C3, first half: while the attempts made so far have all failed and a
\* credential remains, the next call is the attempt with the next credential.
C3_NextCredentialTried ==
    \A r \in Reqs :
        Rotating(r) =>
            \A n \in 1..Len(calls[r]) :
                (/\ n < Len(Configured)
                 /\ AttemptsInOrder(r, n)
                 /\ \A m \in 1..n : StabilityFailed(calls[r][m].out))
                => IF n = Len(calls[r]) THEN ctx[r].pc = "stability"
                   ELSE AttemptsInOrder(r, n + 1)

\* C3, second half: when the attempts with credentials 1..N-1 failed and the
\* attempt with credential N returned an image, there are exactly N Stability
\* attempts, Gemini is never called, the upload carries that image and the
\* success response the URL of that upload.
C3_ImageOfLastCredential ==
    \A r \in Reqs :
        LET N == Len(Configured)
        IN (/\ Rotating(r)
            /\ N >= 1
            /\ AttemptsInOrder(r, N)
            /\ \A m \in 1..(N - 1) : StabilityFailed(calls[r][m].out)
            /\ StabilitySucceeded(calls[r][N].out))
           => /\ CallsTo(r, {"stability"}) = 1..N
              /\ ~Called(r, "gemini")
              /\ ctx[r].pc \in {"upload", "done"}
              /\ Len(calls[r]) <= N + 1
              /\ Done(r) <=> (Len(calls[r]) = N + 1)
              /\ Done(r) =>
                    /\ Last(r).api = "upload"
                    /\ Last(r).file = "data:image/png;base64," \o calls[r][N].out.image
                    /\ Last(r).out.kind = "result" =>
                          /\ response[r].body.status = "success"
                          /\ Last(r).out.hasUrl =>
                                response[r].body.imageUrl =
                                    SecureUrl(Last(r).folder, Last(r).public_id)

\* C3: in the rotating handler, with N configured credentials of which the
\* attempts 1..N-1 fail and the attempt N succeeds, exactly N Stability
\* attempts are made, one per credential in order, Gemini is never called, and
\* the uploaded and returned image is the one of attempt N.
C3_Claim == C3_NextCredentialTried /\ C3_ImageOfLastCredential

\* The case of C3_ImageOfLastCredential with two credentials
C3_Reached ==
    \E r \in Reqs :
        /\ Rotating(r) /\ Done(r) /\ Len(Configured) = MaxKeys
        /\ AttemptsInOrder(r, MaxKeys)
        /\ \A m \in 1..(MaxKeys - 1) : StabilityFailed(calls[r][m].out)
        /\ StabilitySucceeded(calls[r][MaxKeys].out)
        /\ response[r].body.status = "success"

\* C4: when every Stability attempt failed and Gemini returns a response with
\* no candidates field or an empty candidate list, the response is HTTP 500
\* with status 'error' and no imageUrl field, and no upload call is made.
C4_NoCandidates ==
    \A r \in Reqs :
        (/\ calls[r] # <<>>
         /\ Last(r).api = "gemini"
         /\ Last(r).out.kind = "response"
         /\ (~Last(r).out.hasCandidates \/ Last(r).out.candidates = <<>>)
         /\ \A n \in CallsTo(r, {"stability"}) : StabilityFailed(calls[r][n].out))
        => /\ Done(r)
           /\ response[r].status = 500
           /\ response[r].body.status = "error"
           /\ "imageUrl" \notin DOMAIN response[r].body
           /\ ~Called(r, "upload")

C4_Witness ==
    \E r \in Reqs :
        /\ Rotating(r) /\ Done(r)
        /\ Cardinality(CallsTo(r, {"stability"})) = MaxKeys
        /\ Last(r).api = "gemini"
        /\ Last(r).out.kind = "response"
        /\ Last(r).out.hasCandidates /\ Last(r).out.candidates = <<>>

\* --------------------------------------------------------- generated image
ImageTypes == {PNG, JPEG}

\* A provider call returned an image
Yields(e) ==
    IF e.api = "stability" THEN StabilitySucceeded(e.out)
    ELSE /\ e.api = "gemini"
         /\ e.out.kind = "response"
         /\ e.out.hasCandidates
         /\ e.out.candidates # <<>>
         /\ e.out.candidates[1].hasContent
         /\ \E n \in 1..Len(e.out.candidates[1].parts) :
               /\ e.out.candidates[1].parts[n].inlineData.present
               /\ e.out.candidates[1].parts[n].inlineData.mimeType \in ImageTypes

\* The media type, base64 data and caption of the image a provider call
\* returned: of Stability a PNG captioned with the prompt, of Gemini the first
\* image part of the first candidate, captioned with its first text part
Generated(e) ==
    IF e.api = "stability"
    THEN [mimeType |-> "image/png", data |-> e.out.image, caption |-> e.prompt]
    ELSE LET parts == e.out.candidates[1].parts
             img == CHOOSE n \in 1..Len(parts) :
                        /\ parts[n].inlineData.present
                        /\ parts[n].inlineData.mimeType \in ImageTypes
                        /\ \A m \in 1..(n - 1) :
                              ~(/\ parts[m].inlineData.present
                                /\ parts[m].inlineData.mimeType \in ImageTypes)
             texts == {n \in 1..Len(parts) : parts[n].text # ""}
         IN [mimeType |-> Str(parts[img].inlineData.mimeType),
             data |-> parts[img].inlineData.data,
             caption |-> IF texts = {} THEN e.prompt
                         ELSE parts[CHOOSE n \in texts : \A m \in texts : n <= m].text]

\* The positions of the provider calls of invocation r that returned an image
\* with data
Generations(r) ==
    {n \in CallsTo(r, {"stability", "gemini"}) :
        Yields(calls[r][n]) /\ Generated(calls[r][n]).data # ""}

\* C5: for every successful generation with media type M, base64 data D and
\* caption C, the uploader is called exactly once, with the payload
\* 'data:' + M + ';base64,' + D, and the success response carries C as
\* generatedImage.caption, M as generatedImage.mimeType and the URL the
\* uploader returned as imageUrl.
C5_RoundTrip ==
    \A r \in Reqs :
        \A n \in Generations(r) :
            LET g == Generated(calls[r][n])
                uploads == CallsTo(r, {"upload"})
            IN /\ ctx[r].pc \in {"upload", "done"}
               /\ ctx[r].pc = "upload" => uploads = {}
               /\ Done(r) =>
                     /\ uploads = {n + 1}
                     /\ calls[r][n + 1].file = "data:" \o g.mimeType \o ";base64," \o g.data
                     /\ response[r].body.status = "success" =>
                           /\ response[r].body.generatedImage.caption = g.caption
                           /\ response[r].body.generatedImage.mimeType = g.mimeType
                           /\ IF calls[r][n + 1].out.hasUrl
                              THEN response[r].body.imageUrl =
                                       SecureUrl(calls[r][n + 1].folder,
                                                 calls[r][n + 1].public_id)
                              ELSE "imageUrl" \notin DOMAIN response[r].body

\* A Gemini image with a caption of its own, uploaded and answered
C5_Witness ==
    \E r \in Reqs :
        \E n \in Generations(r) :
            /\ Done(r)
            /\ calls[r][n].api = "gemini"
            /\ Generated(calls[r][n]).mimeType = "image/jpeg"
            /\ Generated(calls[r][n]).caption = "A fox, drawn."
            /\ response[r].body.status = "success"
            /\ "imageUrl" \in DOMAIN response[r].body

\* The requests served so far that ended in a success response
Successes == {n \in 1..Len(history) : history[n].outcome = "success"}

\* C6: any two sequential successful requests upload under two distinct
\* public_ids, whatever their prompts and whatever Date.now() returned to each.
C6_Claim ==
    \A m, n \in Successes : m # n => history[m].public_id # history[n].public_id

\* ---------------------------------------------------------------- outcomes
\* How invocation r ended, read off the results of its calls.
\* The moderation call returned a rejection
ModerationRejected(r) ==
    /\ Last(r).api = "moderation"
    /\ Last(r).out.kind = "text"
    /\ StartsWithUnsafeAnyCase(trim(Last(r).out.text))

\* The upload returned (and, in the moderating handler, returned a URL)
Uploaded(r) ==
    /\ Last(r).api = "upload"
    /\ Last(r).out.kind = "result"
    /\ (handler = "rotating" \/ Last(r).out.hasUrl)

\* The last call threw
Threw(r) == Last(r).out.kind = "throws"

\* Gemini returned no usable image: no candidates, a candidate without
\* content, no image part, or (rotating handler) an image part without data
GenerationFailed(r) ==
    /\ Last(r).api = "gemini"
    /\ Last(r).out.kind = "response"
    /\ \/ ~Yields(Last(r))
       \/ handler = "rotating" /\ Generated(Last(r)).data = ""

\* The upload returned no URL (moderating handler)
UploadFailed(r) ==
    /\ Last(r).api = "upload"
    /\ Last(r).out.kind = "result"
    /\ handler = "moderating" /\ ~Last(r).out.hasUrl

\* A failure after the authorization check
FailedAfterAuth(r) ==
    /\ calls[r] # <<>>
    /\ ctx[r].pc \in {"done", "escaped"}
    /\ (Threw(r) \/ GenerationFailed(r) \/ UploadFailed(r))

\* C7: the HTTP status of every response is determined by the outcome: 200
\* exactly for success and moderated, 401 exactly for a mismatching shared
\* secret, 500 for every generation failure, upload failure and thrown error;
\* no other status is returned.
C7_StatusByOutcome ==
    \A r \in Reqs :
        Done(r) =>
            /\ response[r].status \in {200, 401, 500}
            /\ response[r].status = 401 <=> Mismatch(r)
            /\ response[r].status = 200 <=>
                  (calls[r] # <<>> /\ (Uploaded(r) \/ ModerationRejected(r)))
            /\ response[r].status = 500 <=> (~ctx[r].decoded \/ FailedAfterAuth(r))
            /\ response[r].status = 200 <=>
                  /\ "status" \in DOMAIN response[r].body
                  /\ response[r].body.status \in {"success", "moderated"}
            /\ response[r].status = 500 <=>
                  /\ "status" \in DOMAIN response[r].body
                  /\ response[r].body.status = "error"

\* Responses of all three statuses, the 500 from an upload that threw
C7_Witness ==
    /\ Len(history) = 1
    /\ history[1].outcome = "unauthorized"
    /\ \E r \in Reqs :
          /\ Done(r) /\ response[r].status = 500
          /\ calls[r] # <<>> /\ Last(r).api = "upload" /\ Threw(r)

\* C8 as claimed: every response, the unauthorized one included, carries a
\* prompt field equal to the prompt of the request body.
C8_Claim ==
    \A r \in Reqs :
        Done(r) =>
            /\ "prompt" \in DOMAIN response[r].body
            /\ ctx[r].decoded => response[r].body.prompt = ctx[r].prompt

\* C8 amended: every response other than the 401 response carries a prompt
\* field: the prompt of the request body, or '' when the body could not be
\* decoded; the 401 response carries no prompt field.
C8_PromptEchoed ==
    \A r \in Reqs :
        Done(r) =>
            IF Mismatch(r)
            THEN "prompt" \notin DOMAIN response[r].body
            ELSE /\ "prompt" \in DOMAIN response[r].body
                 /\ response[r].body.prompt =
                        IF ctx[r].decoded THEN ctx[r].prompt ELSE ""

\* A failure response that echoes the prompt
C8_Witness ==
    \E r \in Reqs :
        /\ Done(r) /\ response[r].status = 500 /\ ctx[r].decoded
        /\ calls[r] # <<>> /\ GenerationFailed(r)
        /\ response[r].body.prompt = "a blue whale"

\* C9: within one request no provider attempt is made after an attempt that
\* returned an image (so at most one attempt yields an image), at most one
\* upload call is made, and it is made only after an image was returned.
C9_OneImageOneUpload ==
    \A r \in Reqs :
        LET attempts == CallsTo(r, {"stability", "gemini"})
            uploads == CallsTo(r, {"upload"})
            yielded == {n \in attempts : Yields(calls[r][n])}
        IN /\ \A m, n \in attempts : m < n => m \notin yielded
           /\ ctx[r].pc \in {"stability", "gemini"} => yielded = {}
           /\ Cardinality(yielded) <= 1
           /\ Cardinality(uploads) <= 1
           /\ \A u \in uploads : \E n \in yielded : n < u
           /\ ctx[r].pc = "upload" => (uploads = {} /\ yielded # {})

\* A request whose second Stability attempt returned the image that was
\* uploaded
C9_Witness ==
    \E r \in Reqs :
        /\ Done(r) /\ Len(calls[r]) = 3
        /\ calls[r][1].api = "stability" /\ StabilityFailed(calls[r][1].out)
        /\ calls[r][2].api = "stability" /\ Yields(calls[r][2])
        /\ calls[r][3].api = "upload"

\* C10: every failure after the authorization check ends in a returned
\* response with HTTP 500 and status 'error', a message and the prompt; no
\* exception leaves the handler.
C10_Claim ==
    \A r \in Reqs :
        /\ ctx[r].pc # "escaped"
        /\ FailedAfterAuth(r) =>
              /\ Done(r)
              /\ response[r].status = 500
              /\ {"status", "message", "prompt"} \subseteq DOMAIN response[r].body
              /\ response[r].body.status = "error"


\* ------------------------------------------------------------ C11 .. C20
\* C11: when the upload call fails, the pipeline stops: exactly one upload call
\* was made, no success response is produced, and the response is HTTP 500 with
\* status 'error', the message 'Failed to upload image to cloud storage' and
\* the uploader's error message.
C11_UploadFailure ==
    \A r \in Reqs :
        \A n \in CallsTo(r, {"upload"}) :
            calls[r][n].out.kind = "throws" =>
                /\ Done(r)
                /\ CallsTo(r, {"upload"}) = {n}
                /\ n = Len(calls[r])
                /\ response[r].status = 500
                /\ response[r].body.status = "error"
                /\ response[r].body.message = "Failed to upload image to cloud storage"
                /\ calls[r][n].out.error.message # Undefined =>
                      /\ "cloudinaryError" \in DOMAIN response[r].body
                      /\ response[r].body.cloudinaryError = calls[r][n].out.error.message

C11_Witness ==
    \E r \in Reqs :
        /\ Done(r) /\ calls[r] # <<>>
        /\ Last(r).api = "upload" /\ Last(r).out.kind = "throws"
        /\ Last(r).out.error.message = "fetch failed"
        /\ response[r].body.cloudinaryError = "fetch failed"

\* The moderation call of invocation r returned text that, trimmed, does not
\* start with UNSAFE in any letter case
ModeratedSafe(r) ==
    /\ calls[r] # <<>>
    /\ calls[r][1].api = "moderation"
    /\ calls[r][1].out.kind = "text"
    /\ ~StartsWithUnsafeAnyCase(trim(calls[r][1].out.text))

\* C12: in the moderating handler, when the moderation call returns text that
\* does not start with UNSAFE (trimmed, in any letter case), the handler goes
\* on to make exactly one Gemini image call, with the prompt of the request.
C12_SafeProceeds ==
    \A r \in Reqs :
        (handler = "moderating" /\ ModeratedSafe(r)) =>
            IF Len(calls[r]) = 1 THEN ctx[r].pc = "gemini"
            ELSE /\ calls[r][2].api = "gemini"
                 /\ calls[r][2].prompt = ctx[r].requestPrompt
                 /\ CallsTo(r, {"gemini"}) = {2}
                 /\ ctx[r].pc # "gemini"

\* Moderation answered with text that merely contains 'unsafe', and the Gemini
\* call was made
C12_Witness ==
    \E r \in Reqs :
        /\ handler = "moderating" /\ ModeratedSafe(r)
        /\ calls[r][1].out.text # SAFE
        /\ calls[r][1].out.text # <<>>
        /\ CallsTo(r, {"gemini"}) = {2}
        /\ calls[r][2].prompt = "a blue whale"


\* The four terminal responses: success, moderated, unauthorized, error
TerminalResponses ==
    {resp \in {response[r] : r \in Reqs} :
        \/ resp.status = 200 /\ "status" \in DOMAIN resp.body
                             /\ resp.body.status \in {"success", "moderated"}
        \/ resp.status = 401 /\ resp.body = [error |-> "Unauthorized request"]
        \/ resp.status = 500 /\ "status" \in DOMAIN resp.body
                             /\ resp.body.status = "error"}

\* C13: whatever the external calls return, an invocation ends with exactly
\* one of the four terminal responses: it never ends without a response, and
\* it has no response before it ends.
C13_Claim ==
    \A r \in Reqs :
        /\ ctx[r].pc # "escaped"
        /\ Done(r) => response[r] \in TerminalResponses
        /\ ~Done(r) => response[r] = NoResponse

\* C14: in the rotating handler an attempt with a credential that fails (by a
\* non-success status, a malformed payload, or a payload without an image
\* field) is followed by the attempt with the next configured credential, or by
\* the Gemini call when it was the last credential.
C14_Claim ==
    \A r \in Reqs :
        Rotating(r) =>
            \A n \in CallsTo(r, {"stability"}) :
                StabilityFailed(calls[r][n].out) =>
                    IF n < Len(Configured)
                    THEN IF n = Len(calls[r]) THEN ctx[r].pc = "stability"
                         ELSE /\ calls[r][n + 1].api = "stability"
                              /\ calls[r][n + 1].key = Str(Configured[n + 1])
                    ELSE IF n = Len(calls[r]) THEN ctx[r].pc = "gemini"
                         ELSE calls[r][n + 1].api = "gemini"

\* C15: in the rotating handler the credentials are attempted in the configured
\* order, each at most once; Gemini is called at most once, and only when every
\* configured credential was attempted and failed (or none is configured).
C15_Claim ==
    \A r \in Reqs :
        Rotating(r) =>
            LET attempts == CallsTo(r, {"stability"})
                N == Len(Configured)
            IN /\ \E k \in 0..N : attempts = 1..k /\ AttemptsInOrder(r, k)
               /\ Cardinality(CallsTo(r, {"gemini"})) <= 1
               /\ Called(r, "gemini") =>
                     /\ attempts = 1..N
                     /\ \A m \in attempts : StabilityFailed(calls[r][m].out)


\* C16: on a moderation rejection the message of the moderated response is the
\* text that follows 'UNSAFE' in the moderation model's trimmed answer, trimmed;
\* when nothing follows, it is 'Content deemed unsafe.'.
C16_Claim ==
    \A r \in Reqs :
        (/\ handler = "moderating" /\ Done(r)
         /\ calls[r] # <<>> /\ ModerationRejected(r)) =>
            LET text == trim(Last(r).out.text)
                rest == Str(trim(substring(text, Len(UNSAFE))))
            IN response[r].body.message =
                   IF Falsy(rest) THEN "Content deemed unsafe." ELSE rest


\* The moderation call of invocation r threw
ModerationThrew(r) ==
    /\ calls[r] # <<>>
    /\ calls[r][1].api = "moderation"
    /\ calls[r][1].out.kind = "throws"

\* C17: in the moderating handler, when the moderation call throws, the
\* request is answered with HTTP 500 and status 'error', never with 'moderated'
\* or 'success', and neither the Gemini image call nor the upload call is made.
C17_Claim ==
    \A r \in Reqs :
        (handler = "moderating" /\ ModerationThrew(r)) =>
            /\ Done(r)
            /\ response[r].status = 500
            /\ response[r].body.status = "error"
            /\ ~Called(r, "gemini")
            /\ ~Called(r, "upload")


\* The caption invocation r has to give the image that its provider call e
\* returned: the text of the first part of Gemini's first candidate that has
\* text, when there is one, and the prompt of the request otherwise
ExpectedCaption(r, e) ==
    IF e.api = "stability" THEN ctx[r].requestPrompt
    ELSE LET parts == e.out.candidates[1].parts
             texts == {n \in 1..Len(parts) : parts[n].text # ""}
         IN IF texts = {} THEN ctx[r].requestPrompt
            ELSE parts[CHOOSE n \in texts : \A m \in texts : n <= m].text

\* C18: when Gemini's first candidate has an image part, the caption is the
\* text of the candidate's text part if it has one and the prompt of the
\* request otherwise; when the image comes from a Stability credential, the
\* caption is the prompt of the request. The success response carries that
\* caption.
C18_Caption ==
    \A r \in Reqs :
        \A n \in CallsTo(r, {"stability", "gemini"}) :
            Yields(calls[r][n]) =>
                /\ ctx[r].caption = ExpectedCaption(r, calls[r][n])
                /\ (Done(r) /\ response[r].body.status = "success") =>
                      /\ response[r].body.generatedImage.caption =
                             ExpectedCaption(r, calls[r][n])
                      /\ response[r].body.message = ExpectedCaption(r, calls[r][n])

\* Gemini returned an image and two text parts, and the success response is
\* captioned with the first text
C18_Witness ==
    \E r \in Reqs :
        /\ Done(r) /\ calls[r] # <<>>
        /\ response[r].body.status = "success"
        /\ \E n \in CallsTo(r, {"gemini"}) :
              /\ Yields(calls[r][n])
              /\ Cardinality({m \in 1..Len(calls[r][n].out.candidates[1].parts) :
                     calls[r][n].out.candidates[1].parts[m].text # ""}) = 2
        /\ response[r].body.generatedImage.caption = "first"


\* Invocation r ended with the 500 error response that carries the message
\* and the diagnostic data of the failure (Gemini's response or the error's
\* details)
FailedWith(r, message) ==
    /\ Done(r)
    /\ response[r].status = 500
    /\ response[r].body.status = "error"
    /\ response[r].body.message = message
    /\ {"geminiResponse", "details"} \cap DOMAIN response[r].body # {}

\* C19: when the Gemini call, the last provider attempt, failed, the 500
\* response names the failure: 'No image candidates found' when Gemini
\* returned no candidates, 'No image part found in Gemini response' when its
\* first candidate has no image part, the error's message when the call threw;
\* and the response carries the diagnostic data.
C19_Claim ==
    \A r \in Reqs :
        (/\ calls[r] # <<>>
         /\ Last(r).api = "gemini"
         /\ ctx[r].pc \in {"done", "escaped"}) =>
            LET o == Last(r).out
            IN /\ (o.kind = "response" /\ (~o.hasCandidates \/ o.candidates = <<>>))
                     => FailedWith(r, "No image candidates found")
               /\ (/\ o.kind = "response" /\ o.hasCandidates /\ o.candidates # <<>>
                   /\ ~Yields(Last(r)))
                     => FailedWith(r, "No image part found in Gemini response")
               /\ o.kind = "throws" =>
                     FailedWith(r, IF o.error.message = Undefined
                                   THEN "Internal server error"
                                   ELSE o.error.message)


\* C20: whatever requests were served before, an authorized request to the
\* rotating handler reads the full list of configured credentials, makes its
\* first attempt with the first of them, and its n-th attempt with the n-th:
\* no credential is skipped because of what happened in an earlier request.
C20_FreshRotation ==
    \A r \in Reqs :
        Rotating(r) =>
            /\ ctx[r].STABILITY_KEYS = Configured
            /\ Len(Configured) >= 1 =>
                  IF calls[r] = <<>>
                  THEN ctx[r].pc = "stability" /\ ctx[r].i = 0
                  ELSE /\ calls[r][1].api = "stability"
                       /\ calls[r][1].key = Str(Configured[1])
            /\ \A n \in CallsTo(r, {"stability"}) :
                  calls[r][n].key = Str(Configured[n])

\* An earlier request ended by an exception of the Gemini call, which the
\* rotating handler makes only after an attempt with a credential failed; the
\* next request attempted the first credential again, and then the second
C20_Witness ==
    \E r \in Reqs :
        /\ Rotating(r)
        /\ Len(Configured) = MaxKeys
        /\ history # <<>>
        /\ history[1].outcome = "escaped"
        /\ Len(calls[r]) >= 2
        /\ calls[r][1].api = "stability" /\ calls[r][1].key = Str(Configured[1])
        /\ calls[r][2].api = "stability" /\ calls[r][2].key = Str(Configured[2])


\* ------------------------------------------------------------ C21 .. C23
\* The upload call of invocation r, its last call, returned a result
UploadReturned(r) ==
    /\ calls[r] # <<>>
    /\ Last(r).api = "upload"
    /\ Last(r).out.kind = "result"

\* C22: in the moderating handler a response with status 'success' is
\* returned only after the upload call returned a non-empty URL, and its
\* imageUrl and generatedImage.imageUrl are that URL; when the upload returns
\* without a URL, the response is HTTP 500 with message 'Image URL not
\* available'.
C22_SuccessHasUrl ==
    \A r \in Reqs :
        (handler = "moderating" /\ Done(r)) =>
            /\ ("status" \in DOMAIN response[r].body
                /\ response[r].body.status = "success") =>
                  /\ UploadReturned(r)
                  /\ Last(r).out.hasUrl
                  /\ CallsTo(r, {"upload"}) = {Len(calls[r])}
                  /\ "imageUrl" \in DOMAIN response[r].body
                  /\ response[r].body.imageUrl # ""
                  /\ response[r].body.imageUrl =
                         SecureUrl(Last(r).folder, Last(r).public_id)
                  /\ response[r].body.generatedImage.imageUrl =
                         response[r].body.imageUrl
            /\ (UploadReturned(r) /\ ~Last(r).out.hasUrl) =>
                  /\ response[r].status = 500
                  /\ response[r].body.status = "error"
                  /\ response[r].body.message = "Image URL not available"

\* The moderating handler answered 'success' with the URL of its upload
C22_Witness ==
    \E r \in Reqs :
        /\ handler = "moderating" /\ Done(r)
        /\ UploadReturned(r) /\ Last(r).out.hasUrl
        /\ response[r].status = 200
        /\ response[r].body.status = "success"
        /\ response[r].body.imageUrl = SecureUrl(Folder, "gemini-gen-1")


\* req.json() of invocation r threw: the invocation is over and the body was
\* never destructured
DecodeThrew(r) == ctx[r].pc \in {"done", "escaped"} /\ ~ctx[r].decoded

\* C23: when decoding the request body throws, the response is HTTP 500 with
\* status 'error', the message of the decoding error and the empty prompt; the
\* shared secret is never read or compared, and no moderation, Stability,
\* Gemini or upload call is made.
C23_DecodeFailure ==
    \A r \in Reqs :
        DecodeThrew(r) =>
            /\ Done(r)
            /\ response[r].status = 500
            /\ response[r].body.status = "error"
            /\ response[r].body.message = DecodeError.message
            /\ "prompt" \in DOMAIN response[r].body
            /\ response[r].body.prompt = ""
            /\ ctx[r].sharedSecret = InitCtx.sharedSecret
            /\ calls[r] = <<>>

\* Decoding threw in a deployment that has a shared secret configured, which
\* an undecoded body cannot match
C23_Witness ==
    \E r \in Reqs :
        /\ DecodeThrew(r)
        /\ env.SHARED_SECRET = "s3cret"
        /\ response[r].status = 500
        /\ response[r].body.prompt = ""


\* The body that req.json() gave invocation r
BodyOf(r) ==
    IF ctx[r].decoded
    THEN [kind |-> "json", prompt |-> ctx[r].prompt, sharedSecret |-> ctx[r].sharedSecret]
    ELSE [kind |-> "throws", error |-> DecodeError]

\* The arguments POST gives the call it awaits with the locals c are those of
\* the logged call e, the clock-derived public_id of an upload apart
SameArguments(c, e) ==
    /\ c.pc = e.api
    /\ CASE e.api = "moderation" -> e.prompt = c.prompt
         [] e.api = "stability" ->
                /\ e.prompt = c.prompt
                /\ c.i < Len(c.STABILITY_KEYS)
                /\ e.key = Str(c.STABILITY_KEYS[c.i + 1])
         [] e.api = "gemini" -> e.prompt = c.prompt
         [] e.api = "upload" ->
                /\ e.file = UploadCall(c, 0).file
                /\ e.folder = UploadCall(c, 0).folder

\* POST run alone on a body and on the results of the logged calls es: the
\* locals and the response it ends with, and whether each call it made had the
\* arguments of the logged call
RECURSIVE Alone(_, _)
Alone(body, es) ==
    IF es = <<>>
    THEN [step |-> DecodeStep([InitCtx EXCEPT !.pc = "decode"], body), same |-> TRUE]
    ELSE LET sofar == Alone(body, SubSeq(es, 1, Len(es) - 1))
             e == es[Len(es)]
             c == sofar.step.ctx
         IN IF ~(sofar.same /\ SameArguments(c, e))
            THEN [step |-> sofar.step, same |-> FALSE]
            ELSE [step |->
                     CASE e.api = "moderation" -> ModerationStep(c, e.out)
                       [] e.api = "stability" -> StabilityStep(c, e.out)
                       [] e.api = "gemini" -> GeminiStep(c, e.out)
                       [] e.api = "upload" ->
                              UploadStep(c, [UploadCall(c, 0) EXCEPT
                                                !.public_id = e.public_id], e.out),
                  same |-> TRUE]

\* Invocation r has decoded its body, or ended trying
Started(r) == ctx[r].pc \notin {"idle", "decode"}

\* C21: when invocations interleave at every external call, each invocation's
\* sequence of calls, their arguments (the clock-derived public_id apart), its
\* locals and its response are those of a run alone on the same body and the
\* same results of its calls.
C21_AsIfAlone ==
    \A r \in Reqs :
        Started(r) =>
            LET alone == Alone(BodyOf(r), calls[r])
            IN /\ alone.same
               /\ alone.step.ctx = ctx[r]
               /\ alone.step.response = response[r]

\* Two invocations with different prompts are suspended at external calls,
\* each after a call of its own has returned
C21_Witness ==
    \E r, q \in Reqs :
        /\ r # q
        /\ ctx[r].pc \in {"gemini", "upload"}
        /\ ctx[q].pc \in {"stability", "gemini", "upload"}
        /\ calls[r] # <<>> /\ calls[q] # <<>>
        /\ ctx[r].prompt = "a red fox"
        /\ ctx[q].prompt = "a blue whale"

====
